---- MODULE Spec2Model ----
(***************************************************************************)
(* Model of the leaderboard route handler GET (src/app/layout.tsx:97-268): *)
(* credential check, parameter parsing, query construction, the primary    *)
(* provider call, the stats branch with its eligible-count call and        *)
(* fallback, and the listing branch (score extraction, sort, rank pass).   *)
(*                                                                         *)
(* JavaScript values are modelled by what the code does with them:         *)
(*   - a string is a sequence of one-character strings;                    *)
(*   - a value that may be null/undefined is [has, s] or [has, v];         *)
(*   - a number is [nan, v], so that parseInt can yield NaN.               *)
(* Presentation-only fields of an entry (name, pfp, rewards) take no part  *)
(* in any computation of the handler and are not carried.                  *)
(***************************************************************************)
EXTENDS Integers, Sequences, FiniteSets, TLC

\* ---------------------------------------------------------------- bounds
MaxParamLen == 2      \* longest page parameter string
MaxProfiles == 4      \* profiles on a page, each with at most one score entry
MaxScores == 3        \* longest score collection, on a page of one profile
MaxRequests == 2      \* requests GET serves one after the other
MaxRefreshes == 2     \* refreshScore calls that reach the service
MaxSkipped == 1       \* calls counted as returned at a guard
MaxFetches == 3       \* calls of getCreatorScoreForTalentId

\* ------------------------------------------------------- program constants
ListingMinScore == 1
EligibleMinScore == 80
RewardMinScore == 100
MissingKeyStatus == 500

\* ------------------------------------------------------------ JS values
SeqsUpTo(S, n) == UNION {[1..k -> S] : k \in 0..n}

Absent == [has |-> FALSE, s |-> <<>>]
Str(s) == [has |-> TRUE, s |-> s]

NaN == [nan |-> TRUE, v |-> 0]
Num(v) == [nan |-> FALSE, v |-> v]

NoValue == [has |-> FALSE, v |-> 0]
Val(v) == [has |-> TRUE, v |-> v]

\* a || b on strings: null, undefined and "" are falsy
StrOr(a, b) == IF a.has /\ a.s # <<>> THEN a ELSE b

\* x || d on an optional number: undefined and 0 are falsy
NumOr(x, d) == IF x.has /\ x.v # 0 THEN x.v ELSE d

\* x ?? d
Nullish(x, d) == IF x.has THEN x.v ELSE d

Digits == {"0", "1", "2", "3", "4", "5", "6", "7", "8", "9"}
WhiteSpace == {" "}

DigitVal(c) ==
  CASE c = "0" -> 0 [] c = "1" -> 1 [] c = "2" -> 2 [] c = "3" -> 3
    [] c = "4" -> 4 [] c = "5" -> 5 [] c = "6" -> 6 [] c = "7" -> 7
    [] c = "8" -> 8 [] c = "9" -> 9

RECURSIVE SkipWS(_)
SkipWS(s) ==
  IF s # <<>> /\ Head(s) \in WhiteSpace THEN SkipWS(Tail(s)) ELSE s

\* longest prefix of decimal digits: how many, and their value
RECURSIVE DigitsPrefix(_, _, _)
DigitsPrefix(s, n, v) ==
  IF s # <<>> /\ Head(s) \in Digits
  THEN DigitsPrefix(Tail(s), n + 1, v * 10 + DigitVal(Head(s)))
  ELSE [n |-> n, v |-> v]

\* parseInt(s, 10): leading white space, optional sign, digit prefix;
\* NaN when there is no digit
parseInt(s) ==
  LET t == SkipWS(s)
      neg == t # <<>> /\ Head(t) = "-"
      u == IF t # <<>> /\ Head(t) \in {"-", "+"} THEN Tail(t) ELSE t
      d == DigitsPrefix(u, 0, 0)
  IN IF d.n = 0 THEN NaN ELSE Num(IF neg THEN 0 - d.v ELSE d.v)

\* Math.floor(t * 0.3) for a non-negative integer t.  The double nearest
\* to 0.3 is below 0.3 by a relative 3.7e-17, less than half an ulp, so the
\* rounded product t * 0.3 is the integer 3t/10 when 10 divides t and keeps
\* the integer part of 3t/10 otherwise (t < 2^50).
FloorThirtyPercent(t) == (3 * t) \div 10

\* ------------------------------------------------------------ the state
VARIABLES
  apiKey,         \* process.env.TALENT_API_KEY
  request,        \* searchParams: page, per_page, perPage, statsOnly
  provider,       \* what the provider holds: profiles of the page, totals
  pc,             \* where GET stands
  calls,          \* provider queries issued so far, in order
  replies,        \* how the provider answered each call, in order
  totalCreators,  \* the local of the stats branch
  response,       \* what GET returned
  earlier         \* what GET returned to the requests before this one

\* useScoreRefresh (src/unnamed/part_000:12-87) and useProfileActions
\* (src/app/layout.tsx:291-451).  A useState value is the value last set;
\* the functions of a render read the values of that render, kept in view.
VARIABLES
  talentUUID,           \* the prop, a string
  hasOnSuccess,         \* whether refetchScore / onSuccess was passed
  calculating,          \* the prop
  lastCalculatedAt,     \* the prop; the useState of useProfileCreatorScore
  now,                  \* the clock, in ms
  cooldownMinutes,      \* useState, useProfileActions
  isRefreshing,         \* useState, useScoreRefresh
  successMessage,       \* useState, useScoreRefresh
  refreshError,         \* useState error, useScoreRefresh
  hasCalledSuccessRef,  \* useRef, useScoreRefresh
  view,                 \* the state values the last render read
  refreshes,            \* the refreshScore calls that reached the service
  skipped               \* calls that returned at a guard, counted

getVars == <<apiKey, request, provider, pc, calls, replies, totalCreators,
             response, earlier>>

hookVars == <<talentUUID, hasOnSuccess, calculating, lastCalculatedAt, now,
              cooldownMinutes, isRefreshing, successMessage, refreshError,
              hasCalledSuccessRef, view, refreshes, skipped>>

\* useProfileCreatorScore (src/unnamed/part_000:93-154): its prop is
\* talentUUID, its state creatorScore, lastCalculatedAt, loading and error.
VARIABLES
  creatorScore,   \* useState: null, or a number
  loading,        \* useState
  error,          \* useState: null, or a string
  cache,          \* what getCachedData finds under creator_score_data_<uuid>
  fetches         \* the calls of getCreatorScoreForTalentId, in order

scoreVars == <<creatorScore, loading, error, cache, fetches>>

vars == <<getVars, hookVars, scoreVars>>

\* ------------------------------------------------- parameter parsing
True4 == <<"t", "r", "u", "e">>
DefaultPage == <<"1">>
DefaultPerPage == <<"2", "5">>

\* const page = parseInt(searchParams.get("page") || "1", 10)
PageOf(req) == parseInt(StrOr(req.page, Str(DefaultPage)).s)

\* const perPage = parseInt(get("per_page") || get("perPage") || "25", 10)
PerPageOf(req) ==
  parseInt(StrOr(StrOr(req.per_page, req.perPage), Str(DefaultPerPage)).s)

\* const statsOnly = searchParams.get("statsOnly") === "true"
StatsOnlyOf(req) == req.statsOnly.has /\ req.statsOnly.s = True4

\* the credential check left out
KeyCheckSkipped(k) == FALSE

\* if (!apiKey): undefined and "" are falsy
KeyMissing(k) == ~(k.has /\ k.s # <<>>)

\* --------------------------------------------------- query construction
Scorer == "Creator Score"

\* the secondary sort by id left out
PrimaryQueryNoIdSort(req) ==
  [min |-> ListingMinScore, scorer |-> Scorer,
   sort |-> <<[key |-> "score", order |-> "desc", scorer |-> Scorer]>>,
   page |-> PageOf(req), per_page |-> PerPageOf(req)]

PrimaryQuery(req) ==
  [min |-> ListingMinScore, scorer |-> Scorer,
   sort |-> <<[key |-> "score", order |-> "desc", scorer |-> Scorer],
              [key |-> "id", order |-> "desc", scorer |-> ""]>>,
   page |-> PageOf(req), per_page |-> PerPageOf(req)]

EligibleQuery ==
  [min |-> EligibleMinScore, scorer |-> Scorer, sort |-> <<>>,
   page |-> Num(1), per_page |-> Num(1)]

\* ------------------------------------------ Step 1: score of a profile
CreatorSlug == "creator_score"

IsCreatorScore(s) == s.slug = CreatorSlug

\* p.scores.filter(slug === "creator_score").map(points ?? 0), [] when
\* p.scores is not an array
CreatorScores(p) ==
  IF p.scores.isArray
  THEN LET f == SelectSeq(p.scores.items, IsCreatorScore)
       IN [i \in 1..Len(f) |-> Nullish(f[i].points, 0)]
  ELSE <<>>

\* Math.max(...xs) for a non-empty xs
RECURSIVE MathMax(_)
MathMax(xs) ==
  IF Len(xs) = 1 THEN xs[1]
  ELSE LET m == MathMax(Tail(xs)) IN IF xs[1] > m THEN xs[1] ELSE m

\* the slug filter left out: every entry of the profile counts
ExtractScoreAnySlug(p) ==
  LET cs == IF p.scores.isArray
            THEN [i \in 1..Len(p.scores.items) |->
                    Nullish(p.scores.items[i].points, 0)]
            ELSE <<>>
  IN IF Len(cs) > 0 THEN MathMax(cs) ELSE 0

ExtractScore(p) ==
  LET cs == CreatorScores(p) IN IF Len(cs) > 0 THEN MathMax(cs) ELSE 0

MapProfiles(ps) ==
  [i \in 1..Len(ps) |-> [id |-> ps[i].id, score |-> ExtractScore(ps[i])]]

\* ---------------------------------------------------- Step 2: the sort
\* the comparator with its operands swapped: ascending order
CompareAscending(a, b) == a.score - b.score

\* the comparator (a, b) => b.score - a.score
Compare(a, b) == b.score - a.score

\* an unstable sort: e goes before the elements that tie with it
RECURSIVE InsertSortedUnstable(_, _)
InsertSortedUnstable(e, s) ==
  IF s = <<>> THEN <<e>>
  ELSE IF Compare(Head(s), e) < 0
       THEN <<Head(s)>> \o InsertSortedUnstable(e, Tail(s))
       ELSE <<e>> \o s

\* Array.prototype.sort is stable: e goes after every element that the
\* comparator does not order after it
RECURSIVE InsertSorted(_, _)
InsertSorted(e, s) ==
  IF s = <<>> THEN <<e>>
  ELSE IF Compare(Head(s), e) <= 0
       THEN <<Head(s)>> \o InsertSorted(e, Tail(s))
       ELSE <<e>> \o s

RECURSIVE SortFrom(_, _)
SortFrom(rest, acc) ==
  IF rest = <<>> THEN acc
  ELSE SortFrom(Tail(rest), InsertSorted(Head(rest), acc))

SortByScore(mapped) == SortFrom(mapped, <<>>)

\* ------------------------------------------------ Step 3: the rank pass
\* one forward pass over the entries with lastScore, lastRank and ties
RECURSIVE AssignRanks(_, _, _, _, _)
AssignRanks(mapped, idx, lastScore, lastRank, ties) ==
  IF idx > Len(mapped) THEN <<>>
  ELSE LET entry == mapped[idx]
           same == lastScore.has /\ entry.score = lastScore.v
           rank == IF same THEN lastRank
                   ELSE IF ties > 0 THEN lastRank + ties ELSE idx
       IN <<[id |-> entry.id, score |-> entry.score, rank |-> rank]>> \o
          (IF same
           THEN AssignRanks(mapped, idx + 1, lastScore, lastRank, ties + 1)
           ELSE AssignRanks(mapped, idx + 1, Val(entry.score), rank, 1))

\* dense ranking: a new score takes the next rank, ties are not skipped
RECURSIVE AssignRanksDense(_, _, _, _)
AssignRanksDense(mapped, idx, lastScore, lastRank) ==
  IF idx > Len(mapped) THEN <<>>
  ELSE LET entry == mapped[idx]
           same == lastScore.has /\ entry.score = lastScore.v
           rank == IF same THEN lastRank ELSE lastRank + 1
       IN <<[id |-> entry.id, score |-> entry.score, rank |-> rank]>> \o
          AssignRanksDense(mapped, idx + 1, Val(entry.score), rank)

RankPassDense(mapped) == AssignRanksDense(mapped, 1, NoValue, 0)

\* cumulative ranking: ranks continue from the pages before this one
RankPassGlobal(mapped) ==
  LET local == AssignRanks(mapped, 1, NoValue, 0, 0)
      before == IF PageOf(request).nan \/ PerPageOf(request).nan THEN 0
                ELSE (PageOf(request).v - 1) * PerPageOf(request).v
  IN [i \in 1..Len(local) |->
        [local[i] EXCEPT !.rank = local[i].rank + before]]

\* lastScore, lastRank and ties kept outside GET: the pass of a request
\* starts from what the pass of the request before it left
RankPassCarried(mapped) ==
  LET prev == IF earlier = <<>> THEN <<>>
              ELSE earlier[Len(earlier)].entries
  IN IF prev = <<>> THEN AssignRanks(mapped, 1, NoValue, 0, 0)
     ELSE LET last == prev[Len(prev)]
              ties == Cardinality({k \in 1..Len(prev) :
                                     prev[k].score = last.score})
          IN AssignRanks(mapped, 1, Val(last.score), last.rank, ties)

RankPass(mapped) == AssignRanks(mapped, 1, NoValue, 0, 0)

\* json.profiles || []
ProfilesOf(json) == IF json.profiles.has THEN json.profiles.items ELSE <<>>

Ranked(json) == RankPass(SortByScore(MapProfiles(ProfilesOf(json))))

\* the page count in place of the provider's total
ListingTotalFromPage(json, n) == n

\* json.pagination?.total || ranked.length
ListingTotal(json, n) == NumOr(json.total, n)

\* json.pagination?.total || 0
StatsTotal(json) == NumOr(json.total, 0)

\* -------------------------------------------------------- the responses
NoResponse ==
  [kind |-> "none", status |-> 0, error |-> "", entries |-> <<>>,
   minScore |-> 0, totalCreators |-> 0, eligibleCreators |-> 0]

ErrorResponse(status, text) ==
  [NoResponse EXCEPT !.kind = "error", !.status = status, !.error = text]

\* an exception nothing in GET catches: the handler's promise rejects
Thrown == [NoResponse EXCEPT !.kind = "thrown"]

StatsResponse(total, eligible) ==
  [NoResponse EXCEPT !.kind = "stats", !.status = 200,
                     !.minScore = RewardMinScore, !.totalCreators = total,
                     !.eligibleCreators = eligible]

ListingResponse(entries, total) ==
  [NoResponse EXCEPT !.kind = "listing", !.status = 200,
                     !.entries = entries, !.minScore = RewardMinScore,
                     !.totalCreators = total]

\* ------------------------------------------------ inputs of the model
ParamAlphabet == {"2", "a", "-"}

PageChoices ==
  {Absent} \cup {Str(s) : s \in SeqsUpTo(ParamAlphabet, MaxParamLen)}
PerPageSnakeChoices == {Absent, Str(<<"5">>), Str(<<"x">>)}
PerPageCamelChoices == {Absent, Str(<<"7">>)}
StatsOnlyChoices == {Absent, Str(True4), Str(<<"1">>)}
KeyChoices == {Absent, Str(<<>>), Str(<<"k">>)}

Requests ==
  [page : PageChoices, per_page : PerPageSnakeChoices,
   perPage : PerPageCamelChoices, statsOnly : StatsOnlyChoices]

\* score entries a profile may carry: points null, negative, positive, and
\* an entry of another slug that outweighs them all
ScoreEntries ==
  {[slug |-> CreatorSlug, points |-> p] :
     p \in {NoValue, Val(0 - 1), Val(1), Val(2)}}
  \cup {[slug |-> "other", points |-> Val(9)]}

\* p.scores: not an array, or a collection of at most n entries
ScoresChoices(n) ==
  {[isArray |-> FALSE, items |-> <<>>]}
  \cup {[isArray |-> TRUE, items |-> it] : it \in SeqsUpTo(ScoreEntries, n)}

\* profiles carry distinct ids, here their position in the provider's page
MkProfiles(scs) == [i \in 1..Len(scs) |-> [id |-> i, scores |-> scs[i]]]

Pages(maxP, maxS) ==
  {MkProfiles(scs) : scs \in SeqsUpTo(ScoresChoices(maxS), maxP)}

NoProfiles == [has |-> FALSE, items |-> <<>>]
Profiles(ps) == [has |-> TRUE, items |-> ps]

One(e) == [isArray |-> TRUE, items |-> <<e>>]
Two(e, f) == [isArray |-> TRUE, items |-> <<e, f>>]
C(v) == [slug |-> CreatorSlug, points |-> Val(v)]
Other9 == [slug |-> "other", points |-> Val(9)]

\* a page with a tie: scores 1, 2, 2
TiedPage == MkProfiles(<<One(C(1)), Two(C(2), Other9), One(C(2))>>)

SampleProviders ==
  [profiles : {NoProfiles, Profiles(<<>>), Profiles(TiedPage)},
   total : {NoValue, Val(0), Val(7), Val(1000)},
   eligibleTotal : {NoValue, Val(3), Val(300)}]

ListingProviders ==
  [profiles : {NoProfiles}
              \cup {Profiles(ps) : ps \in Pages(MaxProfiles, 1)}
              \cup {Profiles(ps) : ps \in Pages(1, MaxScores)},
   total : {NoValue, Val(0), Val(7)},
   eligibleTotal : {NoValue}]

ListingRequests ==
  [page : {Absent, Str(<<"2">>)}, per_page : {Absent}, perPage : {Absent},
   statsOnly : {Absent}]

ErrorStatuses == {400, 429}
ErrorBodies == {"bad request", "rate limited"}

\* what the provider answers: the body of a 200 is read from its dataset
PrimaryJson == [profiles |-> provider.profiles, total |-> provider.total]
EligibleJson == [total |-> provider.eligibleTotal]

Reply(kind, status, body) == [kind |-> kind, status |-> status, body |-> body]

\* a string state value that may be null
NoText == [has |-> FALSE, t |-> ""]
Text(t) == [has |-> TRUE, t |-> t]

\* a date string prop: null, or a string new Date() reads as ms (NaN when
\* the string is not a date)
NoDate == [has |-> FALSE, ms |-> NaN]
DateAt(ms) == [has |-> TRUE, ms |-> Num(ms)]
BadDate == [has |-> TRUE, ms |-> NaN]

\* what a render reads of the state
ViewOf(refreshing, minutes, err) ==
  [isRefreshing |-> refreshing, cooldownMinutes |-> minutes,
   refreshError |-> err]

\* cache entries and the ids they are kept under
NoEntry == [has |-> FALSE, score |-> 0, lastCalculatedAt |-> NoDate]
Entry(score, last) ==
  [has |-> TRUE, score |-> score, lastCalculatedAt |-> last]
ProfileIds == {"u1", "u2"}

\* useProfileCreatorScore before its effect ran, with nothing cached
ScoreIdle ==
  /\ creatorScore = NoValue
  /\ loading = TRUE
  /\ error = NoText
  /\ cache = [u \in ProfileIds |-> NoEntry]
  /\ fetches = <<>>

\* the hooks before their first render, while GET is looked at
HooksIdle ==
  /\ ScoreIdle
  /\ talentUUID = ""
  /\ hasOnSuccess = FALSE
  /\ calculating = FALSE
  /\ lastCalculatedAt = NoDate
  /\ now = 0
  /\ cooldownMinutes = NoValue
  /\ isRefreshing = FALSE
  /\ successMessage = NoText
  /\ refreshError = NoText
  /\ hasCalledSuccessRef = FALSE
  /\ view = ViewOf(FALSE, NoValue, NoText)
  /\ refreshes = <<>>
  /\ skipped = 0

\* ---------------------------------------------------------------- Init
Init ==
  /\ apiKey \in KeyChoices
  /\ request \in Requests
  /\ provider \in SampleProviders
  /\ pc = "start"
  /\ calls = <<>>
  /\ replies = <<>>
  /\ totalCreators = 0
  /\ response = NoResponse
  /\ earlier = <<>>
  /\ HooksIdle

InitListing ==
  /\ apiKey = Str(<<"k">>)
  /\ request \in ListingRequests
  /\ provider \in ListingProviders
  /\ pc = "start"
  /\ calls = <<>>
  /\ replies = <<>>
  /\ totalCreators = 0
  /\ response = NoResponse
  /\ earlier = <<>>
  /\ HooksIdle

\* ------------------------------------------------------------- actions
\* if (!apiKey) return 500
MissingKey ==
  /\ pc = "start"
  /\ KeyMissing(apiKey)
  /\ response' = ErrorResponse(MissingKeyStatus, "Missing Talent API key")
  /\ pc' = "done"
  /\ UNCHANGED <<earlier, hookVars, scoreVars>>
  /\ UNCHANGED <<apiKey, request, provider, calls, replies, totalCreators>>

\* parse the parameters, build the query, fetch
IssuePrimary ==
  /\ pc = "start"
  /\ ~KeyMissing(apiKey)
  /\ calls' = Append(calls, PrimaryQuery(request))
  /\ pc' = "awaitPrimary"
  /\ UNCHANGED <<earlier, hookVars, scoreVars>>
  /\ UNCHANGED <<apiKey, request, provider, replies, totalCreators, response>>

\* fetch rejects: nothing catches it
PrimaryRejects ==
  /\ pc = "awaitPrimary"
  /\ replies' = Append(replies, Reply("rejected", 0, ""))
  /\ response' = Thrown
  /\ pc' = "done"
  /\ UNCHANGED <<earlier, hookVars, scoreVars>>
  /\ UNCHANGED <<apiKey, request, provider, calls, totalCreators>>

\* the provider's status replaced by a fixed 500
PrimaryNotOkFixedStatus ==
  /\ pc = "awaitPrimary"
  /\ \E st \in ErrorStatuses, body \in ErrorBodies :
       /\ replies' = Append(replies, Reply("status", st, body))
       /\ response' = ErrorResponse(500, body)
  /\ pc' = "done"
  /\ UNCHANGED <<earlier, hookVars, scoreVars>>
  /\ UNCHANGED <<apiKey, request, provider, calls, totalCreators>>

\* if (!res.ok) return { error: await res.text() }, status res.status
PrimaryNotOk ==
  /\ pc = "awaitPrimary"
  /\ \E st \in ErrorStatuses, body \in ErrorBodies :
       /\ replies' = Append(replies, Reply("status", st, body))
       /\ response' = ErrorResponse(st, body)
  /\ pc' = "done"
  /\ UNCHANGED <<earlier, hookVars, scoreVars>>
  /\ UNCHANGED <<apiKey, request, provider, calls, totalCreators>>

\* res.ok, but res.json() rejects: nothing catches it
PrimaryUnreadable ==
  /\ pc = "awaitPrimary"
  /\ replies' = Append(replies, Reply("unreadable", 200, ""))
  /\ response' = Thrown
  /\ pc' = "done"
  /\ UNCHANGED <<earlier, hookVars, scoreVars>>
  /\ UNCHANGED <<apiKey, request, provider, calls, totalCreators>>

\* statsOnly: read the total, build the eligible query, fetch it
PrimaryOkStats ==
  /\ pc = "awaitPrimary"
  /\ StatsOnlyOf(request)
  /\ replies' = Append(replies, Reply("ok", 200, ""))
  /\ totalCreators' = StatsTotal(PrimaryJson)
  /\ calls' = Append(calls, EligibleQuery)
  /\ pc' = "awaitEligible"
  /\ UNCHANGED <<earlier, hookVars, scoreVars>>
  /\ UNCHANGED <<apiKey, request, provider, response>>

\* listing: map, sort, rank, respond
PrimaryOkListing ==
  /\ pc = "awaitPrimary"
  /\ ~StatsOnlyOf(request)
  /\ replies' = Append(replies, Reply("ok", 200, ""))
  /\ LET ranked == Ranked(PrimaryJson)
     IN response' = ListingResponse(ranked,
                                    ListingTotal(PrimaryJson, Len(ranked)))
  /\ pc' = "done"
  /\ UNCHANGED <<earlier, hookVars, scoreVars>>
  /\ UNCHANGED <<apiKey, request, provider, calls, totalCreators>>

\* eligibleRes.ok: eligibleCreators = eligibleJson.pagination?.total || 0
EligibleOk ==
  /\ pc = "awaitEligible"
  /\ replies' = Append(replies, Reply("ok", 200, ""))
  /\ response' = StatsResponse(totalCreators, NumOr(EligibleJson.total, 0))
  /\ pc' = "done"
  /\ UNCHANGED <<earlier, hookVars, scoreVars>>
  /\ UNCHANGED <<apiKey, request, provider, calls, totalCreators>>

\* !eligibleRes.ok: eligibleCreators stays at its initial 0
EligibleNotOk ==
  /\ pc = "awaitEligible"
  /\ \E st \in ErrorStatuses, body \in ErrorBodies :
       replies' = Append(replies, Reply("status", st, body))
  /\ response' = StatsResponse(totalCreators, 0)
  /\ pc' = "done"
  /\ UNCHANGED <<earlier, hookVars, scoreVars>>
  /\ UNCHANGED <<apiKey, request, provider, calls, totalCreators>>

\* no catch block: the rejection escapes GET
EligibleRejectsUncaught ==
  /\ pc = "awaitEligible"
  /\ replies' = Append(replies, Reply("rejected", 0, ""))
  /\ response' = Thrown
  /\ pc' = "done"
  /\ UNCHANGED <<earlier, hookVars, scoreVars>>
  /\ UNCHANGED <<apiKey, request, provider, calls, totalCreators>>

\* the catch block: the fetch rejected
EligibleRejects ==
  /\ pc = "awaitEligible"
  /\ replies' = Append(replies, Reply("rejected", 0, ""))
  /\ response' = StatsResponse(totalCreators,
                               FloorThirtyPercent(totalCreators))
  /\ pc' = "done"
  /\ UNCHANGED <<earlier, hookVars, scoreVars>>
  /\ UNCHANGED <<apiKey, request, provider, calls, totalCreators>>

\* the catch block fetches the eligible count again
EligibleUnreadableRetry ==
  /\ pc = "awaitEligible"
  /\ Len(calls) < 4
  /\ replies' = Append(replies, Reply("unreadable", 200, ""))
  /\ calls' = Append(calls, EligibleQuery)
  /\ UNCHANGED <<earlier, hookVars, scoreVars>>
  /\ UNCHANGED <<apiKey, request, provider, pc, totalCreators, response>>

\* the catch block: eligibleRes.ok, but eligibleRes.json() rejected
EligibleUnreadable ==
  /\ pc = "awaitEligible"
  /\ replies' = Append(replies, Reply("unreadable", 200, ""))
  /\ response' = StatsResponse(totalCreators,
                               FloorThirtyPercent(totalCreators))
  /\ pc' = "done"
  /\ UNCHANGED <<earlier, hookVars, scoreVars>>
  /\ UNCHANGED <<apiKey, request, provider, calls, totalCreators>>

Next ==
  \/ MissingKey
  \/ IssuePrimary
  \/ PrimaryRejects
  \/ PrimaryNotOk
  \/ PrimaryUnreadable
  \/ PrimaryOkStats
  \/ PrimaryOkListing
  \/ EligibleOk
  \/ EligibleNotOk
  \/ EligibleRejects
  \/ EligibleUnreadable

Spec == Init /\ [][Next]_vars

\* the listing path alone, over every page of profiles within the bounds
NextListing ==
  \/ IssuePrimary
  \/ PrimaryOkListing

SpecListing == InitListing /\ [][NextListing]_vars

\* the next request arrives with the same parameters, the provider's data
\* unchanged: GET starts over, all its locals fresh
NextRequest ==
  /\ pc = "done"
  /\ Len(earlier) < MaxRequests - 1
  /\ earlier' = Append(earlier, response)
  /\ pc' = "start"
  /\ calls' = <<>>
  /\ replies' = <<>>
  /\ totalCreators' = 0
  /\ response' = NoResponse
  /\ UNCHANGED <<apiKey, request, provider, hookVars, scoreVars>>

NextTwice ==
  \/ IssuePrimary
  \/ PrimaryOkListing
  \/ NextRequest

SpecTwice == InitListing /\ [][NextTwice]_vars

\* ------------------------------------------------------ useScoreRefresh
EnqueuedMessage == "Calculation enqueued"
TriggerFailedMessage == "Failed to trigger calculation"

\* result.error of a trigger that reports failure: undefined, "", a text
ResultErrors == {NoText, Text(""), Text("Score is up to date")}

\* what a trigger may throw: an Error with a message, or something else
ThrownValues ==
  {[isError |-> TRUE, message |-> "Network down"],
   [isError |-> FALSE, message |-> ""]}

\* const isInCooldown = cooldownMinutes !== null && cooldownMinutes > 0
InCooldown(minutes) == minutes.has /\ minutes.v > 0

\* one call of refreshScore past its guard: where it stands, how onSuccess
\* was called, and what the render it was called from showed
Refresh(via) ==
  [pc |-> "awaitTrigger", via |-> via, result |-> "pending",
   callbacks |-> 0, callback |-> "none",
   atStart |-> [calculating |-> calculating,
                refreshing |-> view.isRefreshing,
                cooldown |-> InCooldown(view.cooldownMinutes),
                error |-> view.refreshError.has]]

\* if (!talentUUID || isRefreshing) return
RefreshScoreReturns ==
  /\ talentUUID = "" \/ view.isRefreshing
  /\ skipped < MaxSkipped
  /\ skipped' = skipped + 1
  /\ UNCHANGED <<isRefreshing, refreshError, successMessage,
                 hasCalledSuccessRef, refreshes>>

\* refreshScore up to the await of triggerScoreCalculation
RefreshScoreStarts(via) ==
  /\ ~(talentUUID = "" \/ view.isRefreshing)
  /\ Len(refreshes) < MaxRefreshes
  /\ isRefreshing' = TRUE
  /\ refreshError' = NoText
  /\ successMessage' = NoText
  /\ hasCalledSuccessRef' = FALSE
  /\ refreshes' = Append(refreshes, Refresh(via))
  /\ UNCHANGED skipped

\* refreshScore called by a user of the hook
RefreshScore ==
  /\ RefreshScoreReturns \/ RefreshScoreStarts("direct")
  /\ UNCHANGED <<getVars, scoreVars, talentUUID, hasOnSuccess, calculating,
                 lastCalculatedAt, now, cooldownMinutes, view>>

Settle(i, pcNew, result) ==
  [refreshes EXCEPT ![i].pc = pcNew, ![i].result = result]

\* the failure branch calls onSuccess as the success branch does
TriggerFailsCallsBack ==
  \E i \in DOMAIN refreshes :
  /\ refreshes[i].pc = "awaitTrigger"
  /\ \E e \in ResultErrors :
       refreshError' =
         Text(IF e.has /\ e.t # "" THEN e.t ELSE TriggerFailedMessage)
  /\ IF hasOnSuccess
     THEN /\ refreshes' = Settle(i, "timer1", "failure")
          /\ UNCHANGED isRefreshing
     ELSE /\ isRefreshing' = FALSE
          /\ refreshes' = Settle(i, "done", "failure")
  /\ UNCHANGED <<getVars, scoreVars, talentUUID, hasOnSuccess, calculating,
                 lastCalculatedAt, now, cooldownMinutes, view,
                 successMessage, hasCalledSuccessRef, skipped>>

\* result.success: the message, then onSuccess after 1000 ms, or the reset
TriggerSucceeds ==
  \E i \in DOMAIN refreshes :
  /\ refreshes[i].pc = "awaitTrigger"
  /\ successMessage' = Text(EnqueuedMessage)
  /\ IF hasOnSuccess /\ ~hasCalledSuccessRef
     THEN /\ hasCalledSuccessRef' = TRUE
          /\ refreshes' = Settle(i, "timer1", "success")
          /\ UNCHANGED isRefreshing
     ELSE /\ isRefreshing' = FALSE
          /\ refreshes' = Settle(i, "done", "success")
          /\ UNCHANGED hasCalledSuccessRef
  /\ UNCHANGED <<getVars, scoreVars, talentUUID, hasOnSuccess, calculating,
                 lastCalculatedAt, now, cooldownMinutes, view,
                 refreshError, skipped>>

\* !result.success: setError(result.error || default), reset
TriggerFails ==
  \E i \in DOMAIN refreshes :
  /\ refreshes[i].pc = "awaitTrigger"
  /\ \E e \in ResultErrors :
       refreshError' =
         Text(IF e.has /\ e.t # "" THEN e.t ELSE TriggerFailedMessage)
  /\ isRefreshing' = FALSE
  /\ refreshes' = Settle(i, "done", "failure")
  /\ UNCHANGED <<getVars, scoreVars, talentUUID, hasOnSuccess, calculating,
                 lastCalculatedAt, now, cooldownMinutes, view,
                 successMessage, hasCalledSuccessRef, skipped>>

\* the catch block: setError(err.message or default), reset
TriggerThrows ==
  \E i \in DOMAIN refreshes :
  /\ refreshes[i].pc = "awaitTrigger"
  /\ \E err \in ThrownValues :
       refreshError' =
         Text(IF err.isError THEN err.message ELSE TriggerFailedMessage)
  /\ isRefreshing' = FALSE
  /\ refreshes' = Settle(i, "done", "thrown")
  /\ UNCHANGED <<getVars, scoreVars, talentUUID, hasOnSuccess, calculating,
                 lastCalculatedAt, now, cooldownMinutes, view,
                 successMessage, hasCalledSuccessRef, skipped>>

\* the 1000 ms timer: await onSuccess()
Timer1Fires ==
  \E i \in DOMAIN refreshes :
  /\ refreshes[i].pc = "timer1"
  /\ refreshes' = [refreshes EXCEPT ![i].pc = "onSuccess",
                                    ![i].callbacks = @ + 1]
  /\ UNCHANGED <<getVars, scoreVars, talentUUID, hasOnSuccess, calculating,
                 lastCalculatedAt, now, cooldownMinutes, view, isRefreshing,
                 successMessage, refreshError, hasCalledSuccessRef, skipped>>

\* onSuccess returned: finally, the 500 ms timer
OnSuccessReturns ==
  \E i \in DOMAIN refreshes :
  /\ refreshes[i].pc = "onSuccess"
  /\ refreshes' = [refreshes EXCEPT ![i].pc = "timer2",
                                    ![i].callback = "returned"]
  /\ UNCHANGED <<getVars, scoreVars, talentUUID, hasOnSuccess, calculating,
                 lastCalculatedAt, now, cooldownMinutes, view, isRefreshing,
                 successMessage, refreshError, hasCalledSuccessRef, skipped>>

\* no finally block: a throwing onSuccess ends the callback
OnSuccessThrowsNoFinally ==
  \E i \in DOMAIN refreshes :
  /\ refreshes[i].pc = "onSuccess"
  /\ refreshes' = [refreshes EXCEPT ![i].pc = "done",
                                    ![i].callback = "threw"]
  /\ UNCHANGED <<getVars, scoreVars, talentUUID, hasOnSuccess, calculating,
                 lastCalculatedAt, now, cooldownMinutes, view, isRefreshing,
                 successMessage, refreshError, hasCalledSuccessRef, skipped>>

\* onSuccess threw: caught and logged, finally, the 500 ms timer
OnSuccessThrows ==
  \E i \in DOMAIN refreshes :
  /\ refreshes[i].pc = "onSuccess"
  /\ refreshes' = [refreshes EXCEPT ![i].pc = "timer2",
                                    ![i].callback = "threw"]
  /\ UNCHANGED <<getVars, scoreVars, talentUUID, hasOnSuccess, calculating,
                 lastCalculatedAt, now, cooldownMinutes, view, isRefreshing,
                 successMessage, refreshError, hasCalledSuccessRef, skipped>>

\* the 500 ms timer: setIsRefreshing(false)
Timer2Fires ==
  \E i \in DOMAIN refreshes :
  /\ refreshes[i].pc = "timer2"
  /\ isRefreshing' = FALSE
  /\ refreshes' = [refreshes EXCEPT ![i].pc = "done"]
  /\ UNCHANGED <<getVars, scoreVars, talentUUID, hasOnSuccess, calculating,
                 lastCalculatedAt, now, cooldownMinutes, view,
                 successMessage, refreshError, hasCalledSuccessRef, skipped>>

\* clearError: setError(null)
ClearError ==
  /\ refreshError.has
  /\ refreshError' = NoText
  /\ UNCHANGED <<getVars, scoreVars, talentUUID, hasOnSuccess, calculating,
                 lastCalculatedAt, now, cooldownMinutes, view, isRefreshing,
                 successMessage, hasCalledSuccessRef, refreshes, skipped>>

\* React renders again after a state change: the functions of the new
\* render read the new values
Render ==
  /\ view # ViewOf(isRefreshing, cooldownMinutes, refreshError)
  /\ view' = ViewOf(isRefreshing, cooldownMinutes, refreshError)
  /\ UNCHANGED <<getVars, scoreVars, talentUUID, hasOnSuccess, calculating,
                 lastCalculatedAt, now, cooldownMinutes, isRefreshing,
                 successMessage, refreshError, hasCalledSuccessRef,
                 refreshes, skipped>>

\* GET is not running while the hooks are looked at
GetIdle ==
  /\ apiKey = Absent
  /\ request = [page |-> Absent, per_page |-> Absent, perPage |-> Absent,
                statsOnly |-> Absent]
  /\ provider = [profiles |-> NoProfiles, total |-> NoValue,
                 eligibleTotal |-> NoValue]
  /\ pc = "idle"
  /\ calls = <<>>
  /\ replies = <<>>
  /\ totalCreators = 0
  /\ response = NoResponse
  /\ earlier = <<>>

UUIDChoices == {"", "u1"}

InitRefresh ==
  /\ GetIdle
  /\ ScoreIdle
  /\ talentUUID \in UUIDChoices
  /\ hasOnSuccess \in BOOLEAN
  /\ calculating = FALSE
  /\ lastCalculatedAt = NoDate
  /\ now = 0
  /\ cooldownMinutes = NoValue
  /\ isRefreshing = FALSE
  /\ successMessage = NoText
  /\ refreshError = NoText
  /\ hasCalledSuccessRef = FALSE
  /\ view = ViewOf(FALSE, NoValue, NoText)
  /\ refreshes = <<>>
  /\ skipped = 0

RefreshSteps ==
  \/ TriggerSucceeds
  \/ TriggerFails
  \/ TriggerThrows
  \/ Timer1Fires
  \/ OnSuccessReturns
  \/ OnSuccessThrows
  \/ Timer2Fires

NextRefresh ==
  \/ RefreshScore
  \/ RefreshSteps
  \/ ClearError
  \/ Render

SpecRefresh == InitRefresh /\ [][NextRefresh]_vars

\* the service answers or throws, onSuccess returns or throws, timers fire
SpecRefreshFair == SpecRefresh /\ WF_vars(RefreshSteps)

\* ---------------------------------------------------- useProfileActions
OneHourInMs == 60 * 60 * 1000
MinuteInMs == 60 * 1000

\* Math.ceil(a / b) for a > 0
Ceil(a, b) == (a + b - 1) \div b

\* the value calculateCooldownTime sets: the minutes left of the hour after
\* the last calculation, null when there is none or the hour is over
CooldownAt(last, currentTime) ==
  IF ~last.has THEN NoValue
  ELSE IF last.ms.nan THEN NoValue
  ELSE IF currentTime < last.ms.v + OneHourInMs
       THEN Val(Ceil(last.ms.v + OneHourInMs - currentTime, MinuteInMs))
       ELSE NoValue

\* the effect on mount and the interval: calculateCooldownTime()
CalculateCooldownTime ==
  /\ cooldownMinutes # CooldownAt(lastCalculatedAt, now)
  /\ cooldownMinutes' = CooldownAt(lastCalculatedAt, now)
  /\ UNCHANGED <<getVars, scoreVars, talentUUID, hasOnSuccess, calculating,
                 lastCalculatedAt, now, view, isRefreshing, successMessage,
                 refreshError, hasCalledSuccessRef, refreshes, skipped>>

ClockValues == {0, MinuteInMs, OneHourInMs - 1, OneHourInMs}

\* time passes
AdvanceClock ==
  /\ \E t \in ClockValues : t > now /\ now' = t
  /\ UNCHANGED <<getVars, scoreVars, talentUUID, hasOnSuccess, calculating,
                 lastCalculatedAt, cooldownMinutes, view, isRefreshing,
                 successMessage, refreshError, hasCalledSuccessRef,
                 refreshes, skipped>>

IsCalculatingOrRefreshing == calculating \/ view.isRefreshing

\* if (isCalculatingOrRefreshing || isInCooldown) return
HandleRefreshScoreReturns ==
  /\ IsCalculatingOrRefreshing \/ InCooldown(view.cooldownMinutes)
  /\ skipped < MaxSkipped
  /\ skipped' = skipped + 1
  /\ UNCHANGED <<isRefreshing, refreshError, successMessage,
                 hasCalledSuccessRef, refreshes>>

\* handleRefreshScore: the guard, then refreshScore()
HandleRefreshScore ==
  /\ \/ HandleRefreshScoreReturns
     \/ /\ ~(IsCalculatingOrRefreshing \/ InCooldown(view.cooldownMinutes))
        /\ RefreshScoreReturns \/ RefreshScoreStarts("handle")
  /\ UNCHANGED <<getVars, scoreVars, talentUUID, hasOnSuccess, calculating,
                 lastCalculatedAt, now, cooldownMinutes, view>>

DateChoices == {NoDate, DateAt(0), BadDate}

InitActions ==
  /\ GetIdle
  /\ ScoreIdle
  /\ talentUUID \in UUIDChoices
  /\ hasOnSuccess = TRUE
  /\ calculating \in BOOLEAN
  /\ lastCalculatedAt \in DateChoices
  /\ now = 0
  /\ cooldownMinutes = NoValue
  /\ isRefreshing = FALSE
  /\ successMessage = NoText
  /\ refreshError = NoText
  /\ hasCalledSuccessRef = FALSE
  /\ view = ViewOf(FALSE, NoValue, NoText)
  /\ refreshes = <<>>
  /\ skipped = 0

NextActions ==
  \/ HandleRefreshScore
  \/ CalculateCooldownTime
  \/ AdvanceClock
  \/ RefreshSteps
  \/ ClearError
  \/ Render

SpecActions == InitActions /\ [][NextActions]_vars

\* ------------------------------------------------ useProfileCreatorScore
FetchFailedMessage == "Failed to fetch creator score"

\* what the service answers: a score, a date or null, and an error field
\* that is undefined, "" or a text
ServiceScores == {0, 42}
ServiceDates == {NoDate, DateAt(0)}
ServiceErrors == {NoText, Text(""), Text("Score unavailable")}

\* if (scoreData.error)
Truthy(e) == e.has /\ e.t # ""

\* the state of the two hooks above, which this hook does not touch
refreshVars == <<hasOnSuccess, calculating, now, cooldownMinutes,
                 isRefreshing, successMessage, refreshError,
                 hasCalledSuccessRef, view, refreshes, skipped>>

Fetch(u) == [uuid |-> u, pc |-> "await", result |-> "pending"]

\* if (talentUUID) fetchScore(): nothing for an empty id
EffectSkips(u) ==
  /\ u = ""
  /\ UNCHANGED <<creatorScore, lastCalculatedAt, loading, error, fetches>>

\* the cache is not looked at: every effect calls the service
EffectFetchesAnyway(u) ==
  /\ u # ""
  /\ cache[u].has
  /\ Len(fetches) < MaxFetches
  /\ loading' = TRUE
  /\ error' = NoText
  /\ fetches' = Append(fetches, Fetch(u))
  /\ UNCHANGED <<creatorScore, lastCalculatedAt>>

\* cachedData !== null: the score and the date of the cache, loading false
EffectCacheHit(u) ==
  /\ u # ""
  /\ cache[u].has
  /\ creatorScore' = Val(cache[u].score)
  /\ lastCalculatedAt' = cache[u].lastCalculatedAt
  /\ loading' = FALSE
  /\ UNCHANGED <<error, fetches>>

\* no cached data: setLoading(true), setError(null), the service is called
EffectFetches(u) ==
  /\ u # ""
  /\ ~cache[u].has
  /\ Len(fetches) < MaxFetches
  /\ loading' = TRUE
  /\ error' = NoText
  /\ fetches' = Append(fetches, Fetch(u))
  /\ UNCHANGED <<creatorScore, lastCalculatedAt>>

\* the effect of [talentUUID]: runs on mount and whenever the prop changes;
\* nothing cancels a fetch of the id before
TalentUUIDChanges ==
  /\ \E u \in (ProfileIds \cup {""}) \ {talentUUID} :
       /\ talentUUID' = u
       /\ EffectSkips(u) \/ EffectCacheHit(u) \/ EffectFetches(u)
  /\ UNCHANGED <<getVars, refreshVars, cache>>

SettleFetch(i, result) ==
  [fetches EXCEPT ![i].pc = "done", ![i].result = result]

\* the service answered without an error: the state and the cache are set
FetchSucceeds ==
  \E i \in DOMAIN fetches :
  /\ fetches[i].pc = "await"
  /\ \E e \in ServiceErrors, sc \in ServiceScores, last \in ServiceDates :
       /\ ~Truthy(e)
       /\ creatorScore' = Val(sc)
       /\ lastCalculatedAt' = last
       /\ cache' = [cache EXCEPT ![fetches[i].uuid] = Entry(sc, last)]
  /\ loading' = FALSE
  /\ fetches' = SettleFetch(i, "ok")
  /\ UNCHANGED <<getVars, refreshVars, talentUUID, error>>

\* scoreData.error: the error is set, score and date are null
FetchReportsError ==
  \E i \in DOMAIN fetches :
  /\ fetches[i].pc = "await"
  /\ \E e \in ServiceErrors :
       /\ Truthy(e)
       /\ error' = e
  /\ creatorScore' = NoValue
  /\ lastCalculatedAt' = NoDate
  /\ loading' = FALSE
  /\ fetches' = SettleFetch(i, "error")
  /\ UNCHANGED <<getVars, refreshVars, talentUUID, cache>>

\* the catch block: err.message or the default, score and date are null
FetchThrows ==
  \E i \in DOMAIN fetches :
  /\ fetches[i].pc = "await"
  /\ \E err \in ThrownValues :
       error' = Text(IF err.isError THEN err.message ELSE FetchFailedMessage)
  /\ creatorScore' = NoValue
  /\ lastCalculatedAt' = NoDate
  /\ loading' = FALSE
  /\ fetches' = SettleFetch(i, "thrown")
  /\ UNCHANGED <<getVars, refreshVars, talentUUID, cache>>

\* CACHE_DURATIONS.SCORE_BREAKDOWN is over: getCachedData finds nothing
CacheExpires ==
  /\ \E u \in ProfileIds :
       /\ cache[u].has
       /\ cache' = [cache EXCEPT ![u] = NoEntry]
  /\ UNCHANGED <<getVars, refreshVars, talentUUID, creatorScore,
                 lastCalculatedAt, loading, error, fetches>>

InitScore ==
  /\ GetIdle
  /\ HooksIdle

NextScore ==
  \/ TalentUUIDChanges
  \/ FetchSucceeds
  \/ FetchReportsError
  \/ FetchThrows
  \/ CacheExpires

SpecScore == InitScore /\ [][NextScore]_vars

\* ============================================================== claims
ListingDone == pc = "done" /\ response.kind = "listing"
StatsDone == pc = "done" /\ response.kind = "stats"

ScoresOf(es) == [i \in 1..Len(es) |-> es[i].score]
RanksOf(es) == [i \in 1..Len(es) |-> es[i].rank]

NonIncreasing(xs) == \A i \in 2..Len(xs) : xs[i - 1] >= xs[i]

\* the profiles the provider returned for the page
ReturnedProfiles ==
  IF provider.profiles.has THEN provider.profiles.items ELSE <<>>

\* C1: over entries sorted non-increasing by score, the rank pass returns
\* one rank per entry, the first rank is 1, an entry has the rank of its
\* predecessor exactly when it has its score, and otherwise its rank is one
\* more than the number of entries before it (standard competition ranking).
C1_RankIsCompetition ==
  ListingDone =>
    LET sc == ScoresOf(response.entries)
        rk == RanksOf(response.entries)
    IN NonIncreasing(sc) =>
         /\ Len(rk) = Len(ReturnedProfiles)
         /\ Len(rk) > 0 => rk[1] = 1
         /\ \A i \in 2..Len(rk) : (rk[i] = rk[i - 1]) <=> (sc[i] = sc[i - 1])
         /\ \A i \in 2..Len(rk) : sc[i] # sc[i - 1] => rk[i] = 1 + (i - 1)
         /\ \A i \in 1..Len(rk) :
              rk[i] = 1 + Cardinality({j \in 1..Len(sc) : sc[j] > sc[i]})

\* C1 witness: a page of four with a leading tie, ranked 1, 1, 3, 4
C1_Witness ==
  /\ ListingDone
  /\ Len(response.entries) = 4
  /\ response.entries[1].score = response.entries[2].score
  /\ RanksOf(response.entries) = <<1, 1, 3, 4>>

\* the points of the creator_score entries of a profile, null counted as 0
CreatorPoints(p) ==
  IF p.scores.isArray
  THEN {IF p.scores.items[i].points.has THEN p.scores.items[i].points.v
        ELSE 0 :
          i \in {k \in 1..Len(p.scores.items) :
                   p.scores.items[k].slug = "creator_score"}}
  ELSE {}

IsExtractedScore(p, v) ==
  IF CreatorPoints(p) = {} THEN v = 0
  ELSE v \in CreatorPoints(p) /\ \A x \in CreatorPoints(p) : v >= x

\* C2: the score of each profile's entry is the maximum of the points
\* (null as 0) of its creator_score entries, and 0 when it has none or no
\* scores collection; entries of other slugs do not count.
C2_ScoreIsMaxCreatorPoints ==
  ListingDone =>
    \A i \in 1..Len(ReturnedProfiles) :
      LET p == ReturnedProfiles[i]
          mine == {k \in 1..Len(response.entries) :
                     response.entries[k].id = p.id}
      IN /\ Cardinality(mine) = 1
         /\ \A k \in mine : IsExtractedScore(p, response.entries[k].score)

\* C2 witness: a profile with creator_score 1 and 2 and another slug at 9
\* is listed with score 2
C2_Witness ==
  /\ ListingDone
  /\ Len(ReturnedProfiles) = 1
  /\ CreatorPoints(ReturnedProfiles[1]) = {1, 2}
  /\ \E k \in 1..Len(ReturnedProfiles[1].scores.items) :
       ReturnedProfiles[1].scores.items[k] = Other9
  /\ response.entries[1].score = 2

\* the total the provider reports for the score >= 1 filter, 0 when its
\* answer carries none
ReportedTotal == IF provider.total.has THEN provider.total.v ELSE 0

EligibleRejected ==
  /\ Len(replies) = 2
  /\ replies[1].kind = "ok"
  /\ replies[2].kind \in {"rejected", "unreadable"}

\* C3: in stats mode, when the total-count call succeeds and the
\* eligible-count call rejects (transport error or unreadable body), the
\* request succeeds with eligibleCreators = floor(totalCreators * 0.3),
\* minScore = 100 and the total of the first call.
C3_StatsFallbackOnReject ==
  (pc = "done" /\ EligibleRejected) =>
    /\ response.kind = "stats"
    /\ response.status = 200
    /\ response.error = ""
    /\ response.minScore = 100
    /\ response.totalCreators = ReportedTotal
    /\ response.eligibleCreators = (3 * ReportedTotal) \div 10

\* C3 witness: total 1000, the eligible call rejected, eligible 300
C3_Witness ==
  /\ StatsDone
  /\ EligibleRejected
  /\ replies[2].kind = "rejected"
  /\ response.totalCreators = 1000
  /\ response.eligibleCreators = 300

\* C4: in stats mode a non-success status of the eligible-count call is a
\* failure of that call: the response carries floor(totalCreators * 0.3),
\* as when the call rejects, and never a count of 0 in its place.
C4_EligibleStatusIsFailure ==
  (pc = "done" /\ Len(replies) = 2 /\ replies[2].kind = "status") =>
    /\ response.kind = "stats"
    /\ response.eligibleCreators = (3 * ReportedTotal) \div 10

\* C5: when the primary call returns a non-success status the request ends
\* with an error response carrying that status and body, without entries or
\* stats, and no eligible-count query follows.
C5_PrimaryFailureSurfaces ==
  (Len(replies) >= 1 /\ replies[1].kind = "status") =>
    /\ pc = "done"
    /\ response.kind = "error"
    /\ response.status = replies[1].status
    /\ response.error = replies[1].body
    /\ response.entries = <<>>
    /\ Len(calls) = 1
    /\ Len(replies) = 1

\* C5 witness: a stats request whose total-count call came back 429
C5_Witness ==
  /\ pc = "done"
  /\ StatsOnlyOf(request)
  /\ Len(replies) = 1
  /\ replies[1] = Reply("status", 429, "rate limited")
  /\ response.status = 429

\* C6: when TALENT_API_KEY is absent, a request in either mode ends at once
\* with an error response and no provider call is made.
C6_MissingKeyNoCall ==
  ~apiKey.has =>
    /\ calls = <<>>
    /\ replies = <<>>
    /\ pc \in {"start", "done"}
    /\ pc = "done" => (response.kind = "error" /\ response.status = 500)

\* C6 witness: a stats request without the credential, answered with 500
C6_Witness ==
  /\ ~apiKey.has
  /\ StatsOnlyOf(request)
  /\ pc = "done"
  /\ response.kind = "error"
  /\ calls = <<>>

\* C7: no retry.  With the credential present a listing request issues
\* exactly one provider call, a stats request at most two (the total-count
\* query, then at most one eligible-count query), and a call is issued
\* after another only when that one succeeded.
C7_NoRetry ==
  /\ Len(calls) <= 2
  /\ Len(replies) <= Len(calls)
  /\ Len(calls) >= 1 => calls[1].min = 1
  /\ Len(calls) = 2 => (StatsOnlyOf(request) /\ calls[2].min = 80)
  /\ \A i \in 1..(Len(calls) - 1) : replies[i].kind = "ok"
  /\ (pc = "done" /\ apiKey = Str(<<"k">>) /\ ~StatsOnlyOf(request)) =>
       Len(calls) = 1

\* C7 witness: a stats request whose eligible-count body was unreadable
\* ended after two calls
C7_Witness ==
  /\ StatsDone
  /\ Len(calls) = 2
  /\ Len(replies) = 2
  /\ replies[2].kind = "unreadable"

\* a parameter that is a decimal integer: an optional sign, then digits
IsNumber(p) ==
  /\ p.has
  /\ LET d == IF p.s # <<>> /\ Head(p.s) \in {"-", "+"} THEN Tail(p.s)
              ELSE p.s
     IN d # <<>> /\ \A i \in 1..Len(d) : d[i] \in Digits

\* C8: in stats mode the total-count query is issued with minimum score 1
\* and page 1, whatever the inbound page parameter.  Stated over the page
\* parameters that are numbers (and the missing one), where the parsing of
\* the parameter is not in question.
C8_StatsTotalQueryPageOne ==
  (StatsOnlyOf(request) /\ Len(calls) >= 1
     /\ (IsNumber(request.page) \/ ~request.page.has)) =>
    /\ calls[1].min = 1
    /\ calls[1].page = Num(1)

\* the profiles on the page the provider returned
PageCount == Len(ReturnedProfiles)

\* C9: in every successful response of either mode, totalCreators is the
\* total the provider's pagination reports for the score >= 1 filter,
\* never a count of the records on the page.
C9_TotalIsReportedTotal ==
  (ListingDone \/ StatsDone) => response.totalCreators = ReportedTotal

\* C9, as amended: totalCreators is the provider's reported total when
\* that is a non-zero number; when it is missing or 0, totalCreators is 0
\* in stats mode and the number of entries on the page in listing mode.
C9_TotalIsReportedOrPageCount ==
  /\ StatsDone => response.totalCreators = ReportedTotal
  /\ ListingDone =>
       response.totalCreators =
         IF ReportedTotal # 0 THEN ReportedTotal ELSE PageCount

\* C9 witness: a listing of three entries carrying the reported total 7
C9_Witness ==
  /\ ListingDone
  /\ PageCount = 3
  /\ provider.total = Val(7)
  /\ response.totalCreators = 7

\* C10: the provider query uses page 1 when the page parameter is missing
\* or not a valid number, and page size 25 when the page size parameter is
\* missing or not a valid number; statsOnly is false unless the parameter
\* is exactly "true".
C10_DefaultsOnMissingOrInvalid ==
  /\ Len(calls) >= 1 =>
       /\ ~IsNumber(request.page) => calls[1].page = Num(1)
       /\ (~IsNumber(request.per_page) /\ ~IsNumber(request.perPage)) =>
            calls[1].per_page = Num(25)
  /\ request.statsOnly # Str(<<"t", "r", "u", "e">>) =>
       (Len(calls) <= 1 /\ response.kind # "stats")

\* C11: the score of every entry of every listing response is
\* non-negative, whatever score entries the provider returned.
C11_ScoreNonNegative ==
  ListingDone =>
    \A i \in 1..Len(response.entries) : response.entries[i].score >= 0

\* C12: the entries of every listing response are ordered non-increasing
\* by score, whatever the order and the score entries of the profiles the
\* provider returned.
C12_EntriesNonIncreasing ==
  ListingDone =>
    \A i \in 1..(Len(response.entries) - 1) :
      response.entries[i].score >= response.entries[i + 1].score

\* C12 witness: the provider's page was in ascending score order and the
\* listing is not
C12_Witness ==
  /\ ListingDone
  /\ Len(ReturnedProfiles) = 3
  /\ CreatorPoints(ReturnedProfiles[1]) = {0 - 1}
  /\ CreatorPoints(ReturnedProfiles[2]) = {1}
  /\ CreatorPoints(ReturnedProfiles[3]) = {2}
  /\ ScoresOf(response.entries) = <<2, 1, 0 - 1>>

\* C14: ranks are page-relative.  For every page number the first entry
\* of a non-empty listing has rank 1, and each rank is settled by the
\* scores on the page alone: one more than the number of entries of the
\* page that score higher, so never beyond the page's length.
C14_RanksArePageRelative ==
  ListingDone =>
    LET e == response.entries
    IN /\ Len(e) > 0 => e[1].rank = 1
       /\ \A i \in 1..Len(e) :
            /\ e[i].rank \in 1..Len(e)
            /\ e[i].rank =
                 1 + Cardinality({j \in 1..Len(e) : e[j].score > e[i].score})

\* C14 witness: a request for page 2 whose listing starts at rank 1
C14_Witness ==
  /\ ListingDone
  /\ request.page = Str(<<"2">>)
  /\ calls[1].page = Num(2)
  /\ Len(response.entries) = 3
  /\ RanksOf(response.entries) = <<1, 2, 2>>

\* the value of a string of decimal digits
RECURSIVE DecimalOf(_)
DecimalOf(s) ==
  IF s = <<>> THEN 0
  ELSE 10 * DecimalOf(SubSeq(s, 1, Len(s) - 1)) + DigitVal(s[Len(s)])

\* the value of a parameter that is a number
NumberOf(p) ==
  IF Head(p.s) = "-" THEN 0 - DecimalOf(Tail(p.s))
  ELSE IF Head(p.s) = "+" THEN DecimalOf(Tail(p.s))
  ELSE DecimalOf(p.s)

\* C15: the primary query carries the filter {min: 1, scorer: "Creator
\* Score"}, the sort by score descending for that scorer followed by the
\* sort by id descending, and the page and page size of the request; the
\* eligible-count query carries {min: 80, scorer: "Creator Score"} and
\* page size 1.
C15_QueryShape ==
  /\ Len(calls) >= 1 =>
       /\ calls[1].min = 1
       /\ calls[1].scorer = "Creator Score"
       /\ calls[1].sort =
            <<[key |-> "score", order |-> "desc", scorer |-> "Creator Score"],
              [key |-> "id", order |-> "desc", scorer |-> ""]>>
       /\ IsNumber(request.page) =>
            calls[1].page = Num(NumberOf(request.page))
       /\ ~request.page.has => calls[1].page = Num(1)
       /\ IsNumber(request.per_page) =>
            calls[1].per_page = Num(NumberOf(request.per_page))
       /\ (~request.per_page.has /\ IsNumber(request.perPage)) =>
            calls[1].per_page = Num(NumberOf(request.perPage))
       /\ (~request.per_page.has /\ ~request.perPage.has) =>
            calls[1].per_page = Num(25)
  /\ Len(calls) >= 2 =>
       /\ calls[2].min = 80
       /\ calls[2].scorer = "Creator Score"
       /\ calls[2].per_page = Num(1)

\* C15 witness: a stats request for page 22 with per_page 5 that issued
\* both queries
C15_Witness ==
  /\ Len(calls) = 2
  /\ request.page = Str(<<"2", "2">>)
  /\ request.per_page = Str(<<"5">>)
  /\ calls[1].page = Num(22)
  /\ calls[1].per_page = Num(5)
  /\ calls[2].min = 80

\* C16: the listing has exactly one entry per profile the provider
\* returned, and entries of equal score keep the provider's relative order
\* (profile ids are the positions in the provider's page).
C16_StablePermutation ==
  ListingDone =>
    LET e == response.entries
    IN /\ Len(e) = Len(ReturnedProfiles)
       /\ \A i \in 1..Len(ReturnedProfiles) :
            Cardinality({k \in 1..Len(e) : e[k].id = ReturnedProfiles[i].id})
              = 1
       /\ \A k \in 1..Len(e) : \A l \in (k + 1)..Len(e) :
            e[k].score = e[l].score => e[k].id < e[l].id

\* C16 witness: scores 1, 2, 1, 2 in the provider's order are listed as
\* profiles 2, 4, 1, 3
C16_Witness ==
  /\ ListingDone
  /\ Len(response.entries) = 4
  /\ ScoresOf(response.entries) = <<2, 2, 1, 1>>
  /\ response.entries[1].id = 2
  /\ response.entries[2].id = 4
  /\ response.entries[3].id = 1
  /\ response.entries[4].id = 3

C17_NoRefreshWhenBlocked ==
  \A i \in DOMAIN refreshes :
    refreshes[i].via = "handle" =>
      /\ ~refreshes[i].atStart.cooldown
      /\ ~refreshes[i].atStart.calculating
      /\ ~refreshes[i].atStart.refreshing
      /\ ~refreshes[i].atStart.error

\* ------------------------------------------------------------------ C18
\* C18: for every refreshScore call that reached triggerScoreCalculation,
\* onSuccess is called at most once, and only when the trigger reported
\* success: never after a failed or a thrown trigger.
C18_OnSuccessOnceOnSuccess ==
  \A i \in DOMAIN refreshes :
    /\ refreshes[i].callbacks <= 1
    /\ refreshes[i].callbacks = 1 => refreshes[i].result = "success"

\* one refresh called onSuccess, another ended on a failed or thrown trigger
C18_Witness ==
  /\ \E i \in DOMAIN refreshes :
       refreshes[i].callbacks = 1 /\ refreshes[i].result = "success"
  /\ \E j \in DOMAIN refreshes :
       /\ refreshes[j].result \in {"failure", "thrown"}
       /\ refreshes[j].pc = "done"
       /\ refreshes[j].callbacks = 0

\* ------------------------------------------------------------------ C19
InFlight == {i \in DOMAIN refreshes : refreshes[i].pc = "awaitTrigger"}

\* C19: in one useScoreRefresh instance there are never two
\* triggerScoreCalculation calls in flight at once, however the calls of
\* refreshScore interleave.
C19_OneTriggerInFlight == Cardinality(InFlight) <= 1

\* ------------------------------------------------------------------ C20
\* C20: a refresh that has started (isRefreshing true) is always followed by
\* isRefreshing false, on every path: trigger success with onSuccess
\* returning or throwing, success without callback, trigger failure, trigger
\* throw; given that the service and the callback settle and timers fire.
C20_RefreshEnds == isRefreshing ~> ~isRefreshing

\* a refresh whose onSuccess threw has ended and isRefreshing is false
C20_Witness ==
  /\ ~isRefreshing
  /\ \E i \in DOMAIN refreshes :
       /\ refreshes[i].pc = "done"
       /\ refreshes[i].callback = "threw"

\* ------------------------------------------------------------------ C21
\* C21: in useScoreRefresh, error and successMessage are never both
\* non-null.
C21_ErrorXorSuccessMessage == ~(refreshError.has /\ successMessage.has)

\* ------------------------------------------------------------------ C22
FetchInFlight == \E i \in DOMAIN fetches : fetches[i].pc = "await"

\* C22: in useProfileCreatorScore, whatever the sequence of talentUUID
\* changes, once the fetches have settled a non-null error goes with a null
\* creatorScore and a null lastCalculatedAt.
C22_ErrorMeansNoScore ==
  (error.has /\ ~FetchInFlight) =>
    (~creatorScore.has /\ ~lastCalculatedAt.has)

\* ------------------------------------------------------------------ C23
\* the effect runs for an id whose data getCachedData finds
CacheHitStep ==
  /\ talentUUID' # talentUUID
  /\ talentUUID' # ""
  /\ cache[talentUUID'].has

\* a step puts data in the cache under u
CacheWritten(u) == cache'[u].has /\ cache'[u] # cache[u]

\* C23: in useProfileCreatorScore a cache hit for the current talentUUID
\* sets the score from the cache, sets loading false and calls no service;
\* the cache is written only by the step in which the service answers the
\* fetch of that id without an error, never on an error or a throw.
C23_CacheHitAndWrite ==
  [][/\ CacheHitStep =>
          /\ creatorScore' = Val(cache[talentUUID'].score)
          /\ loading' = FALSE
          /\ fetches' = fetches
     /\ \A u \in ProfileIds :
          CacheWritten(u) =>
            \E i \in DOMAIN fetches :
              /\ fetches[i].uuid = u
              /\ fetches[i].pc = "await"
              /\ fetches'[i].result = "ok"]_vars

\* the fetch of u1 was cached, the fetch of u2 failed and was not, and the
\* hook is back on u1 with the cached score and without a third call
C23_Witness ==
  /\ talentUUID = "u1"
  /\ Len(fetches) = 2
  /\ fetches[1] = [uuid |-> "u1", pc |-> "done", result |-> "ok"]
  /\ fetches[2].uuid = "u2"
  /\ fetches[2].result \in {"error", "thrown"}
  /\ cache["u1"].has
  /\ ~cache["u2"].has
  /\ creatorScore = Val(cache["u1"].score)
  /\ ~loading

====
